---- MODULE Spec2Model ----
(***************************************************************************)
(* PolyStudio backend: the stream translation of                           *)
(* backend/app/services/stream_processor.py (StreamProcessor) as driven by *)
(* backend/app/services/agent_service.py (process_chat_stream).            *)
(*                                                                         *)
(* The agent (LangGraph) is an opaque producer of inbound chunks.  One     *)
(* turn pulls chunks one at a time, translates each into SSE event         *)
(* records and yields them.  A record is modelled by the JSON object that  *)
(* json.dumps serialises into the frame "data: <JSON>\n\n"; the terminal   *)
(* frame "data: [DONE]\n\n" is the record DoneFrame.                       *)
(***************************************************************************)
EXTENDS Integers, Sequences, FiniteSets, TLC

(***************************************************************************)
(* Values                                                                  *)
(***************************************************************************)

\* Python's None, for a field that holds a string otherwise.
None == "<None>"

\* Python truthiness of an optional string: None and "" are falsy.
Truthy(s) == s # None /\ s # ""

\* A dict is a function on its finite set of keys; {} is the empty function.
EmptyDict == [k \in {} |-> 0]

\* An AIMessageChunk.tool_calls entry.  mapping = FALSE stands for an args
\* value that is truthy and not a dict (dict.update raises on it).
ToolCall(id, name, args) == [id |-> id, name |-> name, args |-> args, mapping |-> TRUE]

BadArgsToolCall(id, name) == [id |-> id, name |-> name, args |-> EmptyDict, mapping |-> FALSE]

\* An AIMessageChunk.tool_call_chunks entry: a raw argument-text fragment.
ToolCallChunk(index, id, args) == [index |-> index, id |-> id, args |-> args]

\* The raw messages the agent streams.
ToolMessage(tool_call_id, content) ==
    [kind |-> "ToolMessage", tool_call_id |-> tool_call_id, content |-> content]

AIMessageChunk(content, tool_calls, tool_call_chunks) ==
    [kind |-> "AIMessageChunk", content |-> content,
     tool_calls |-> tool_calls, tool_call_chunks |-> tool_call_chunks]

\* Anything else that reaches _handle_message_chunk: the metadata dict that
\* LangGraph delivers next to a message, an empty list, a dict key.
OtherObject == [kind |-> "Other"]

(***************************************************************************)
(* Event records (the JSON payload of one SSE frame)                       *)
(***************************************************************************)

DeltaEvent(content) == [type |-> "delta", content |-> content]

ToolCallEvent(id, name, arguments) ==
    [type |-> "tool_call", id |-> id, name |-> name, arguments |-> arguments]

ToolCallChunkEvent(index, id, args) ==
    [type |-> "tool_call_chunk", index |-> index, id |-> id, args |-> args]

ToolResultWithoutContent(tool_call_id, content) ==
    [type |-> "tool_result", tool_call_id |-> tool_call_id, content |-> None]

ToolResultEvent(tool_call_id, content) ==
    [type |-> "tool_result", tool_call_id |-> tool_call_id, content |-> content]

MessagesEvent(messages) == [type |-> "messages", messages |-> messages]

\* The three error records of the code differ in their text and in whether
\* they carry a traceback.
MessageChunkError == [type |-> "error", error |-> "handle_message_chunk", traceback |-> FALSE]

ChunkError == [type |-> "error", error |-> "handle_chunk", traceback |-> FALSE]

StreamError == [type |-> "error", error |-> "process_stream", traceback |-> TRUE]

ChatStreamError == [type |-> "error", error |-> "process_chat_stream", traceback |-> FALSE]

\* The literal frame "data: [DONE]\n\n" (not JSON).
DoneFrame == [type |-> "[DONE]"]

(***************************************************************************)
(* Processor state: StreamProcessor.__init__                               *)
(***************************************************************************)

\* What the code reads of a text: its length, whether it holds a newline,
\* whether it holds one of the punctuation marks of line 207.
TextLen(s) ==
    CASE s = "Hi" -> 2
      [] s = "line\n" -> 5
      [] s = "A sentence of more than fifty characters, with a stop." -> 54
      [] OTHER -> 0

TextHasNewline(s) == s = "line\n"

TextHasPunct(s) == s = "A sentence of more than fifty characters, with a stop."

\* text_buffer = "": the log-aggregation buffer, kept as what line 207 reads.
EmptyBuffer == [len |-> 0, newline |-> FALSE, punct |-> FALSE]

\* len(self.text_buffer) > 50 at line 207.
LogFlushLen == 50

\* self.text_buffer += content_str, then the flush test of lines 207-212.
BufferText(buf, s) ==
    LET b == [len |-> buf.len + TextLen(s),
              newline |-> buf.newline \/ TextHasNewline(s),
              punct |-> buf.punct \/ TextHasPunct(s)]
    IN IF b.newline \/ (b.len > LogFlushLen /\ b.punct) THEN EmptyBuffer ELSE b

\* The per-instance state the translation reads and writes.
NewProcessor == [tool_call_args |-> EmptyDict, text_buffer |-> EmptyBuffer]

(***************************************************************************)
(* The argument accumulator: self.tool_call_args                           *)
(***************************************************************************)

\* dict.update(new): every key of new is set, the other keys are kept.
UpdateKeepOld(old, new) ==
    [k \in DOMAIN old \cup DOMAIN new |-> IF k \in DOMAIN old THEN old[k] ELSE new[k]]

Update(old, new) ==
    [k \in DOMAIN old \cup DOMAIN new |-> IF k \in DOMAIN new THEN new[k] ELSE old[k]]

\* if tool_call_id in self.tool_call_args: del self.tool_call_args[tool_call_id]
ReleaseNothing(acc, id) == acc

ReleaseAll(acc, id) == IF id \in DOMAIN acc THEN EmptyDict ELSE acc

Release(acc, id) == [c \in DOMAIN acc \ {id} |-> acc[c]]

\* if tool_call_id not in self.tool_call_args: self.tool_call_args[tool_call_id] = {}
Ensure(acc, id) ==
    IF id \in DOMAIN acc THEN acc
    ELSE [c \in DOMAIN acc \cup {id} |-> IF c = id THEN EmptyDict ELSE acc[c]]

\* if tool_args: self.tool_call_args[tool_call_id].update(tool_args)
MergeOnlyNew(acc, id, args) ==
    IF args = EmptyDict THEN acc ELSE [acc EXCEPT ![id] = args]

Merge(acc, id, args) ==
    IF args = EmptyDict THEN acc ELSE [acc EXCEPT ![id] = Update(@, args)]

(***************************************************************************)
(* _handle_message_chunk                                                   *)
(*                                                                         *)
(* A produced record is kept with its place in the inbound unit:           *)
(* src = <<message index, part, index in part>>, part 1 the text or tool   *)
(* result, 2 a tool call, 3 a tool call chunk, 4 the error record.         *)
(***************************************************************************)

Produced(rec, msg, part, k) == [rec |-> rec, src |-> <<msg, part, k>>]

\* if not tool_name or not tool_call_id: continue
ValidIfNamed(tc) == Truthy(tc.name)

ValidToolCall(tc) == Truthy(tc.name) /\ Truthy(tc.id)

\* The loop of lines 227-265 from entry i on.  The result holds the records
\* yielded, the accumulator and whether dict.update raised (the loop stops
\* there: the entry was created at line 247, nothing was yielded for it).
RECURSIVE ToolCallsFromBreak(_, _, _, _, _)
ToolCallsFromBreak(tcs, i, m, acc, events) ==
    IF i > Len(tcs) THEN [events |-> events, acc |-> acc, raised |-> FALSE]
    ELSE LET tc == tcs[i] IN
         IF ~ValidToolCall(tc) THEN [events |-> events, acc |-> acc, raised |-> FALSE]
         ELSE LET created == Ensure(acc, tc.id) IN
              IF ~tc.mapping THEN [events |-> events, acc |-> created, raised |-> TRUE]
              ELSE LET merged == Merge(created, tc.id, tc.args)
                       event == ToolCallEvent(tc.id, tc.name, merged[tc.id])
                   IN ToolCallsFromBreak(tcs, i + 1, m, merged,
                                         Append(events, Produced(event, m, 2, i)))

RECURSIVE ToolCallsFrom(_, _, _, _, _)
ToolCallsFrom(tcs, i, m, acc, events) ==
    IF i > Len(tcs) THEN [events |-> events, acc |-> acc, raised |-> FALSE]
    ELSE LET tc == tcs[i] IN
         IF ~ValidToolCall(tc) THEN ToolCallsFrom(tcs, i + 1, m, acc, events)
         ELSE LET created == Ensure(acc, tc.id) IN
              IF ~tc.mapping THEN [events |-> events, acc |-> created, raised |-> TRUE]
              ELSE LET merged == Merge(created, tc.id, tc.args)
                       event == ToolCallEvent(tc.id, tc.name, merged[tc.id])
                   IN ToolCallsFrom(tcs, i + 1, m, merged,
                                    Append(events, Produced(event, m, 2, i)))

\* The loop of lines 269-295: one tool_call_chunk record per entry whose
\* args text is truthy.
RECURSIVE ToolCallChunksMerged(_, _, _)
ToolCallChunksMerged(tccs, i, m) ==
    IF i > Len(tccs) THEN <<>>
    ELSE <<Produced(ToolCallChunkEvent(tccs[i].index, tccs[i].id, tccs[i].args), m, 3, i)>>
         \o ToolCallChunksMerged(tccs, i + 1, m)

RECURSIVE ToolCallChunksFrom(_, _, _)
ToolCallChunksFrom(tccs, i, m) ==
    IF i > Len(tccs) THEN <<>>
    ELSE (IF Truthy(tccs[i].args)
          THEN <<Produced(ToolCallChunkEvent(tccs[i].index, tccs[i].id, tccs[i].args), m, 3, i)>>
          ELSE <<>>) \o ToolCallChunksFrom(tccs, i + 1, m)

\* Lines 193-223: the delta record of a non-empty content.
TextEventsOnFlush(content, m) ==
    IF Truthy(content) /\ TextHasNewline(content)
    THEN <<Produced(DeltaEvent(content), m, 1, 0)>> ELSE <<>>

TextEventsNotNone(content, m) ==
    IF content # None THEN <<Produced(DeltaEvent(content), m, 1, 0)>> ELSE <<>>

TextEvents(content, m) ==
    IF Truthy(content) THEN <<Produced(DeltaEvent(content), m, 1, 0)>> ELSE <<>>

\* except Exception at line 297: the error record of lines 301-305.
_handle_message_chunk_silent(msg, m, st) ==
    CASE msg.kind = "ToolMessage" ->
           [events |-> <<Produced(ToolResultEvent(msg.tool_call_id, msg.content), m, 1, 0)>>,
            st |-> [st EXCEPT !.tool_call_args = Release(@, msg.tool_call_id)]]
      [] msg.kind = "AIMessageChunk" ->
           LET text == TextEvents(msg.content, m)
               buf == IF Truthy(msg.content) THEN BufferText(st.text_buffer, msg.content)
                      ELSE st.text_buffer
               calls == ToolCallsFrom(msg.tool_calls, 1, m, st.tool_call_args, <<>>)
               st2 == [tool_call_args |-> calls.acc, text_buffer |-> buf]
           IN IF calls.raised
              THEN [events |-> text \o calls.events,
                    st |-> st2]
              ELSE [events |-> text \o calls.events
                                \o ToolCallChunksFrom(msg.tool_call_chunks, 1, m),
                    st |-> st2]
      [] OTHER -> [events |-> <<>>, st |-> st]

\* The order of the three blocks of lines 193-295.
_handle_message_chunk_calls_first(msg, m, st) ==
    CASE msg.kind = "ToolMessage" ->
           [events |-> <<Produced(ToolResultEvent(msg.tool_call_id, msg.content), m, 1, 0)>>,
            st |-> [st EXCEPT !.tool_call_args = Release(@, msg.tool_call_id)]]
      [] msg.kind = "AIMessageChunk" ->
           LET text == TextEvents(msg.content, m)
               buf == IF Truthy(msg.content) THEN BufferText(st.text_buffer, msg.content)
                      ELSE st.text_buffer
               calls == ToolCallsFrom(msg.tool_calls, 1, m, st.tool_call_args, <<>>)
               st2 == [tool_call_args |-> calls.acc, text_buffer |-> buf]
           IN IF calls.raised
              THEN [events |-> text \o calls.events \o <<Produced(MessageChunkError, m, 4, 0)>>,
                    st |-> st2]
              ELSE [events |-> calls.events \o text
                                \o ToolCallChunksFrom(msg.tool_call_chunks, 1, m),
                    st |-> st2]
      [] OTHER -> [events |-> <<>>, st |-> st]

\* The isinstance tests of lines 174 and 189: any other object falls through.
_handle_message_chunk_strict(msg, m, st) ==
    CASE msg.kind = "ToolMessage" ->
           [events |-> <<Produced(ToolResultEvent(msg.tool_call_id, msg.content), m, 1, 0)>>,
            st |-> [st EXCEPT !.tool_call_args = Release(@, msg.tool_call_id)]]
      [] msg.kind = "AIMessageChunk" ->
           LET text == TextEvents(msg.content, m)
               buf == IF Truthy(msg.content) THEN BufferText(st.text_buffer, msg.content)
                      ELSE st.text_buffer
               calls == ToolCallsFrom(msg.tool_calls, 1, m, st.tool_call_args, <<>>)
               st2 == [tool_call_args |-> calls.acc, text_buffer |-> buf]
           IN IF calls.raised
              THEN [events |-> text \o calls.events \o <<Produced(MessageChunkError, m, 4, 0)>>,
                    st |-> st2]
              ELSE [events |-> text \o calls.events
                                \o ToolCallChunksFrom(msg.tool_call_chunks, 1, m),
                    st |-> st2]
      [] OTHER -> [events |-> <<Produced(MessageChunkError, m, 4, 0)>>, st |-> st]

\* _handle_message_chunk on the m-th message of a unit, in processor state st:
\* the records it yields and the state it leaves.
_handle_message_chunk(msg, m, st) ==
    CASE msg.kind = "ToolMessage" ->
           [events |-> <<Produced(ToolResultEvent(msg.tool_call_id, msg.content), m, 1, 0)>>,
            st |-> [st EXCEPT !.tool_call_args = Release(@, msg.tool_call_id)]]
      [] msg.kind = "AIMessageChunk" ->
           LET text == TextEvents(msg.content, m)
               buf == IF Truthy(msg.content) THEN BufferText(st.text_buffer, msg.content)
                      ELSE st.text_buffer
               calls == ToolCallsFrom(msg.tool_calls, 1, m, st.tool_call_args, <<>>)
               st2 == [tool_call_args |-> calls.acc, text_buffer |-> buf]
           IN IF calls.raised
              THEN [events |-> text \o calls.events \o <<Produced(MessageChunkError, m, 4, 0)>>,
                    st |-> st2]
              ELSE [events |-> text \o calls.events
                                \o ToolCallChunksFrom(msg.tool_call_chunks, 1, m),
                    st |-> st2]
      [] OTHER -> [events |-> <<>>, st |-> st]

(***************************************************************************)
(* Inbound chunks and _handle_chunk                                        *)
(*                                                                         *)
(* A chunk is [tag, form, items].  tag is the first element when the       *)
(* chunk is a 2-tuple (chunk_type) and NoTag otherwise.  form is what the  *)
(* data (the tuple's second element, or the chunk itself) is: a "list", an *)
(* "object" (one message, items[1]), another "iterable" (the tuple         *)
(* (message, metadata) of LangGraph's messages mode), or for tag "values"  *)
(* a "dict" whose "messages" are items.                                    *)
(***************************************************************************)

NoTag == "<NoTag>"

Chunk(tag, form, items) == [tag |-> tag, form |-> form, items |-> items]

\* What LangGraph yields under stream_mode=["messages"]:
\* ("messages", (message_chunk, metadata)).
Streamed(msg) == Chunk("messages", "iterable", <<msg, OtherObject>>)

\* A message of the conversation state, with an internal-only field.
StateMessage(type, content) == [type |-> type, content |-> content, id |-> "run-1"]

\* langchain_core's convert_to_openai_messages: role and content only.
OpenAIRole(type) ==
    CASE type = "human" -> "user"
      [] type = "ai" -> "assistant"
      [] OTHER -> "tool"

convert_to_openai_messages(messages) ==
    [i \in 1..Len(messages) |->
        [role |-> OpenAIRole(messages[i].type), content |-> messages[i].content]]

\* _handle_values_chunk: one messages record when the snapshot is not empty.
_handle_values_chunk(chunk_data) ==
    IF chunk_data.items # <<>>
    THEN <<Produced(MessagesEvent(convert_to_openai_messages(chunk_data.items)), 1, 1, 0)>>
    ELSE <<>>

\* for message in ...: async for event in self._handle_message_chunk(message)
RECURSIVE MessagesFromPrepend(_, _, _, _)
MessagesFromPrepend(items, i, st, events) ==
    IF i > Len(items) THEN [events |-> events, st |-> st]
    ELSE LET r == _handle_message_chunk(items[i], i, st)
         IN MessagesFromPrepend(items, i + 1, r.st, r.events \o events)

RECURSIVE MessagesFromUntilError(_, _, _, _)
MessagesFromUntilError(items, i, st, events) ==
    IF i > Len(items) THEN [events |-> events, st |-> st]
    ELSE LET r == _handle_message_chunk(items[i], i, st)
         IN IF \E j \in 1..Len(r.events) : r.events[j].rec.type = "error"
            THEN [events |-> events \o r.events, st |-> r.st]
            ELSE MessagesFromUntilError(items, i + 1, r.st, events \o r.events)

RECURSIVE MessagesFrom(_, _, _, _)
MessagesFrom(items, i, st, events) ==
    IF i > Len(items) THEN [events |-> events, st |-> st]
    ELSE LET r == _handle_message_chunk(items[i], i, st)
         IN MessagesFrom(items, i + 1, r.st, events \o r.events)

\* The message a chunk is when it is handled as one object (line 132, 143).
AsSingleMessage(chunk) ==
    IF chunk.form = "object" THEN chunk.items[1] ELSE OtherObject

\* _handle_chunk: the records one inbound chunk yields, and the state left.
_handle_chunk(chunk, st) ==
    IF chunk.tag # NoTag
    THEN IF chunk.tag = "values"
         THEN IF chunk.form = "dict"
              THEN [events |-> _handle_values_chunk(chunk), st |-> st]
              ELSE \* chunk_data.get raises; caught at line 145
                   [events |-> <<Produced(ChunkError, 1, 4, 0)>>, st |-> st]
         ELSE IF chunk.form \in {"list", "iterable"}
              THEN MessagesFrom(chunk.items, 1, st, <<>>)
              ELSE _handle_message_chunk(AsSingleMessage(chunk), 1, st)
    ELSE IF chunk.form = "list" /\ Len(chunk.items) > 0
         THEN MessagesFrom(chunk.items, 1, st, <<>>)
         ELSE _handle_message_chunk(AsSingleMessage(chunk), 1, st)

(***************************************************************************)
(* The inbound alphabets                                                   *)
(***************************************************************************)

\* Bounds of the model.
MaxUnits == 3

MaxScenarioUnits == 5

TextDelta(content) == AIMessageChunk(content, <<>>, <<>>)

ToolCallRequest(id, name, args) == AIMessageChunk("", <<ToolCall(id, name, args)>>, <<>>)

ToolCallArgFragment(id, index, fragment) ==
    AIMessageChunk("", <<>>, <<ToolCallChunk(index, id, fragment)>>)

\* One raw chunk with text, four tool calls (the second without a name, the
\* third without an id) and two argument fragments (the second empty).
MixedChunk ==
    AIMessageChunk("Hi",
                   <<ToolCall("c1", "gen", [a |-> 1]), ToolCall("c2", "", [b |-> 2]),
                     ToolCall(None, "gen", [a |-> 2]), ToolCall("c2", "edit", [b |-> 2])>>,
                   <<ToolCallChunk(0, "c1", "{\"prompt\""), ToolCallChunk(1, "c2", "")>>)

\* One raw chunk whose second tool call makes dict.update raise.
RaisingChunk ==
    AIMessageChunk("Hi",
                   <<ToolCall("c1", "gen", [b |-> 2]), BadArgsToolCall("c2", "gen"),
                     ToolCall("c1", "gen", [a |-> 2])>>,
                   <<ToolCallChunk(0, "c1", "{\"prompt\"")>>)

\* The chunks the agent may deliver, in the shape of LangGraph's messages
\* mode but for the last, a bare list of two messages.
Chunks ==
    { Streamed(ToolCallRequest("c1", "gen", EmptyDict)),
      Streamed(ToolCallRequest("c1", "gen", [a |-> 1])),
      Streamed(ToolCallRequest("c1", "gen", [b |-> 2])),
      Streamed(ToolCallRequest("c1", "gen", [a |-> 2])),
      Streamed(ToolCallRequest("c1", None, [a |-> 1])),
      Streamed(ToolCallRequest("", "gen", [b |-> 2])),
      Streamed(ToolCallArgFragment("c1", 0, "{\"prompt\"")),
      Streamed(ToolMessage("c1", "ok")),
      Streamed(MixedChunk),
      Streamed(RaisingChunk),
      Chunk(NoTag, "list", <<ToolCallRequest("c2", "gen", [a |-> 1]), TextDelta("Hi")>>) }

\* The same translation over the other shapes a chunk may have.
ShapeChunks ==
    { Streamed(TextDelta("Hi")),
      Streamed(TextDelta("")),
      Streamed(TextDelta(None)),
      Streamed(ToolCallArgFragment("c2", 0, "")),
      Streamed(ToolCallArgFragment("c2", 1, ":\"cat\"}")),
      Chunk(NoTag, "list", <<>>),
      Chunk(NoTag, "object", <<ToolCallRequest("c2", "gen", [b |-> 2])>>),
      Chunk(NoTag, "object", <<OtherObject>>),
      Chunk("messages", "object", <<ToolMessage("c2", "ok")>>),
      Chunk("messages", "list", <<RaisingChunk, TextDelta("Hi")>>),
      Chunk("values", "dict", <<StateMessage("human", "draw"), StateMessage("ai", "Hi")>>),
      Chunk("values", "dict", <<>>),
      Chunk("values", "list", <<>>) }

\* The scenario of the specification's section 8, one atomic unit per chunk.
Scenario ==
    << Streamed(TextDelta("Hi")),
       Streamed(ToolCallRequest("c1", "gen", EmptyDict)),
       Streamed(ToolCallArgFragment("c1", 0, "{\"prompt\"")),
       Streamed(ToolCallArgFragment("c1", 0, ":\"cat\"}")),
       Streamed(ToolMessage("c1", "ok")) >>

ScenarioChunks == {Scenario[i] : i \in 1..Len(Scenario)}

(***************************************************************************)
(* The driver: process_chat_stream and StreamProcessor.process_stream      *)
(***************************************************************************)

VARIABLES
    pc,              \* "idle", "running", "completed", "failed", "cancelled"
    inbound,         \* the chunks pulled from agent.astream so far
    pending,         \* records the handling of the current chunk still yields
    out,             \* the records yielded to the transport, in order
    origin,          \* origin[i]: <<unit, message, part, index>> of out[i]
    tool_call_args,  \* self.tool_call_args
    text_buffer,     \* self.text_buffer
    other,           \* a second invocation of process_chat_stream (another turn)
    canvases,        \* the list stored in storage/chat_history.json
    history_call     \* the last HistoryService call and the list it loaded

vars == <<pc, inbound, pending, out, origin, tool_call_args, text_buffer, other,
          canvases, history_call>>

\* An invocation that has not started: the state of the variables above, as
\* one record.
IdleTurn ==
    [pc |-> "idle", inbound |-> <<>>, pending |-> <<>>, out |-> <<>>,
     tool_call_args |-> NewProcessor.tool_call_args,
     text_buffer |-> NewProcessor.text_buffer]

Init ==
    /\ pc = "idle"
    /\ inbound = <<>>
    /\ pending = <<>>
    /\ out = <<>>
    /\ origin = <<>>
    /\ tool_call_args = NewProcessor.tool_call_args
    /\ text_buffer = NewProcessor.text_buffer
    /\ other = IdleTurn
    /\ canvases = <<>>
    /\ history_call = [op |-> "none"]

\* A record the driver itself yields, not derived from an inbound unit.
Lifecycle(rec) == Produced(rec, 0, 0, 0)

\* process_chat_stream, lines 148-158: the agent and the processor are
\* created and process_stream opens agent.astream.
CreateAgent ==
    /\ pc = "idle"
    /\ pc' = "running"
    /\ tool_call_args' = NewProcessor.tool_call_args
    /\ text_buffer' = NewProcessor.text_buffer
    /\ UNCHANGED <<inbound, pending, out, origin, other, canvases, history_call>>

\* create_agent() (no API key) or StreamProcessor() raises: lines 161-171.
CreateAgentFailsUncaught ==
    /\ pc = "idle"
    /\ pc' = "failed"
    /\ pending' = <<>>
    /\ UNCHANGED <<inbound, out, origin, tool_call_args, text_buffer, other, canvases, history_call>>

CreateAgentFailsNoDone ==
    /\ pc = "idle"
    /\ pc' = "failed"
    /\ pending' = <<Lifecycle(ChatStreamError)>>
    /\ UNCHANGED <<inbound, out, origin, tool_call_args, text_buffer, other, canvases, history_call>>

CreateAgentFails ==
    /\ pc = "idle"
    /\ pc' = "failed"
    /\ pending' = <<Lifecycle(ChatStreamError), Lifecycle(DoneFrame)>>
    /\ UNCHANGED <<inbound, out, origin, tool_call_args, text_buffer, other, canvases, history_call>>

\* The outer loop advances only when the inner loop over _handle_chunk's
\* events is exhausted (lines 64-78).
CanPullAnyTime == pc = "running"

CanPullAfterReturn == pc # "idle" /\ pending = <<>>

CanPull == pc = "running" /\ pending = <<>>

\* One iteration of `async for chunk in agent.astream(...)`.
Pull(chunk) ==
    /\ CanPull
    /\ LET r == _handle_chunk(chunk, [tool_call_args |-> tool_call_args,
                                      text_buffer |-> text_buffer])
       IN /\ pending' = r.events
          /\ tool_call_args' = r.st.tool_call_args
          /\ text_buffer' = r.st.text_buffer
    /\ inbound' = Append(inbound, chunk)
    /\ UNCHANGED <<pc, out, origin, other, canvases, history_call>>

\* agent.astream raises (a model or tool failure, GraphRecursionError):
\* lines 89-98 yield one error record with the traceback.
OnStreamErrorUncaught == <<>>

OnStreamError == <<Lifecycle(StreamError)>>

AstreamRaises ==
    /\ CanPull
    /\ pc' = "failed"
    /\ pending' = OnStreamError
    /\ UNCHANGED <<inbound, out, origin, tool_call_args, text_buffer, other, canvases, history_call>>

\* agent.astream is exhausted: lines 80-87.
AstreamExhaustedSilent ==
    /\ CanPull
    /\ pc' = "completed"
    /\ text_buffer' = EmptyBuffer
    /\ pending' = <<>>
    /\ UNCHANGED <<inbound, out, origin, tool_call_args, other, canvases, history_call>>

AstreamExhausted ==
    /\ CanPull
    /\ pc' = "completed"
    /\ text_buffer' = EmptyBuffer
    /\ pending' = <<Lifecycle(DoneFrame)>>
    /\ UNCHANGED <<inbound, out, origin, tool_call_args, other, canvases, history_call>>

\* The unit a yielded record belongs to: the current chunk while running,
\* the end of the stream for a record of the driver itself.
CurrentUnit == IF pc = "running" THEN Len(inbound) ELSE Len(inbound) + 1

\* `yield event`: the next record goes to the transport.
NextToYield == Head(pending)

Yield ==
    /\ pending # <<>>
    /\ out' = Append(out, NextToYield.rec)
    /\ origin' = Append(origin, <<CurrentUnit>> \o NextToYield.src)
    /\ pending' = Tail(pending)
    /\ UNCHANGED <<pc, inbound, tool_call_args, text_buffer, other, canvases, history_call>>

NextOver(chunks, max) ==
    \/ CreateAgent
    \/ CreateAgentFails
    \/ \E chunk \in chunks : Len(inbound) < max /\ Pull(chunk)
    \/ AstreamRaises
    \/ AstreamExhausted
    \/ Yield

Next == NextOver(Chunks, MaxUnits)

Spec == Init /\ [][Next]_vars

NextScenario == NextOver(ScenarioChunks, MaxScenarioUnits)

SpecScenario == Init /\ [][NextScenario]_vars

NextShapes == NextOver(ShapeChunks, MaxUnits)

SpecShapes == Init /\ [][NextShapes]_vars

\* Chunks that carry text, alone or with tool calls and fragments.
LongSentence == "A sentence of more than fifty characters, with a stop."

ContentChunks ==
    { Streamed(MixedChunk),
      Streamed(TextDelta("Hi")),
      Streamed(TextDelta("line\n")),
      Streamed(TextDelta(LongSentence)),
      Streamed(ToolMessage("c2", "ok")) }

NextContent == NextOver(ContentChunks, MaxUnits)

SpecContent == Init /\ [][NextContent]_vars

\* Chunks that are lists of raw messages, tagged or bare, and chunks that
\* are no message at all.
ListChunks ==
    { Chunk("messages", "list", <<RaisingChunk, TextDelta("Hi")>>),
      Chunk(NoTag, "list", <<RaisingChunk, ToolCallRequest("c2", "gen", [a |-> 1]),
                             ToolMessage("c1", "ok")>>),
      Chunk(NoTag, "list", <<>>),
      Chunk(NoTag, "object", <<OtherObject>>),
      Streamed(ToolCallRequest("c1", "gen", [a |-> 1])) }

NextLists == NextOver(ListChunks, MaxUnits)

SpecLists == Init /\ [][NextLists]_vars

(***************************************************************************)
(* A second turn: process_chat_stream builds a StreamProcessor of its own  *)
(* for every invocation (agent_service.py line 155).  The turn's state is  *)
(* the record `other`; its steps are those of the driver above.            *)
(***************************************************************************)

\* self.tool_call_args = {} in __init__: the accumulator an instance works
\* on is its own attribute, not the one of another instance.
SharedAttribute(own, others) == others

InstanceAttribute(own, others) == own

OtherStep(next) ==
    /\ other' = next
    /\ UNCHANGED <<pc, inbound, pending, out, origin, tool_call_args, text_buffer, canvases, history_call>>

OtherCreateAgent ==
    /\ other.pc = "idle"
    /\ OtherStep([other EXCEPT !.pc = "running",
                               !.tool_call_args = NewProcessor.tool_call_args,
                               !.text_buffer = NewProcessor.text_buffer])

OtherPull(chunk) ==
    /\ other.pc = "running" /\ other.pending = <<>>
    /\ LET r == _handle_chunk(chunk,
                    [tool_call_args |-> InstanceAttribute(other.tool_call_args, tool_call_args),
                     text_buffer |-> other.text_buffer])
       IN OtherStep([other EXCEPT !.inbound = Append(@, chunk),
                                  !.pending = r.events,
                                  !.tool_call_args = r.st.tool_call_args,
                                  !.text_buffer = r.st.text_buffer])

OtherAstreamRaises ==
    /\ other.pc = "running" /\ other.pending = <<>>
    /\ OtherStep([other EXCEPT !.pc = "failed", !.pending = OnStreamError])

OtherAstreamExhausted ==
    /\ other.pc = "running" /\ other.pending = <<>>
    /\ OtherStep([other EXCEPT !.pc = "completed",
                               !.text_buffer = EmptyBuffer,
                               !.pending = <<Lifecycle(DoneFrame)>>])

OtherYield ==
    /\ other.pending # <<>>
    /\ OtherStep([other EXCEPT !.out = Append(@, Head(other.pending).rec),
                               !.pending = Tail(@)])

\* Bound and alphabet of two turns that use the same call id.
MaxTurnUnits == 2

TurnChunks ==
    { Streamed(ToolCallRequest("c1", "gen", [a |-> 1])),
      Streamed(ToolCallRequest("c1", "gen", [b |-> 2])),
      Streamed(ToolMessage("c1", "ok")) }

NextTurns ==
    \/ NextOver(TurnChunks, MaxTurnUnits)
    \/ OtherCreateAgent
    \/ \E chunk \in TurnChunks : Len(other.inbound) < MaxTurnUnits /\ OtherPull(chunk)
    \/ OtherAstreamRaises
    \/ OtherAstreamExhausted
    \/ OtherYield

SpecTurns == Init /\ [][NextTurns]_vars

(***************************************************************************)
(* Client disconnect.  chat() hands the generator to StreamingResponse     *)
(* (chat.py lines 110-119), which stops iterating it when the client       *)
(* disconnects: the generator is suspended at the await of agent.astream   *)
(* or at a yield and is cancelled there.  The handlers of lines 89, 145,   *)
(* 297 and agent_service.py line 161 catch Exception only, which the       *)
(* cancellation (CancelledError, GeneratorExit) is not.                    *)
(***************************************************************************)

\* What the except blocks yield for a cancellation: nothing.
OnCancelCaught == <<Lifecycle(StreamError)>>

OnCancel == <<>>

\* The generator has not returned: it awaits the next chunk or holds
\* records not yet yielded.
Suspended == pc = "running" \/ (pc \in {"completed", "failed"} /\ pending # <<>>)

ClientDisconnects ==
    /\ Suspended
    /\ pc' = "cancelled"
    /\ pending' = OnCancel
    /\ UNCHANGED <<inbound, out, origin, tool_call_args, text_buffer, other, canvases, history_call>>

NextDisconnect ==
    \/ NextOver(ScenarioChunks, MaxUnits)
    \/ ClientDisconnects

SpecDisconnect == Init /\ [][NextDisconnect]_vars

(***************************************************************************)
(* The step budget: self.recursion_limit (lines 30-31) is handed to        *)
(* agent.astream (line 66).  A step is one run of a node of the agent's    *)
(* graph: the model node streams AIMessageChunks, the tools node streams   *)
(* ToolMessages.  When the graph needs a step beyond the limit astream     *)
(* raises GraphRecursionError, an Exception.                               *)
(***************************************************************************)

\* RECURSION_LIMIT, scaled down (default 200 at line 31).
recursion_limit == 2

MaxBudgetUnits == 4

BudgetChunks ==
    { Streamed(TextDelta("Hi")),
      Streamed(ToolCallRequest("c1", "gen", [a |-> 1])),
      Streamed(ToolMessage("c1", "ok")) }

\* The node of the graph a streamed chunk comes from.
Node(chunk) == IF chunk.items[1].kind = "ToolMessage" THEN "tools" ELSE "agent"

\* The steps the graph has run to stream the chunks seq.
StepsTaken(seq) ==
    Cardinality({u \in 1..Len(seq) : u = 1 \/ Node(seq[u]) # Node(seq[u - 1])})

\* astream raises GraphRecursionError: the budget is used up and the graph
\* is not done.  Lines 89-98 catch it like any other exception.
RecursionLimitExceeded ==
    /\ CanPull
    /\ StepsTaken(inbound) = recursion_limit
    /\ pc' = "failed"
    /\ pending' = OnStreamError
    /\ UNCHANGED <<inbound, out, origin, tool_call_args, text_buffer, other, canvases, history_call>>

\* The turns of an agent that fails in no other way.
NextBudget ==
    \/ CreateAgent
    \/ \E chunk \in BudgetChunks :
          /\ Len(inbound) < MaxBudgetUnits
          /\ StepsTaken(Append(inbound, chunk)) <= recursion_limit
          /\ Pull(chunk)
    \/ RecursionLimitExceeded
    \/ AstreamExhausted
    \/ Yield

SpecBudget == Init /\ [][NextBudget]_vars

(***************************************************************************)
(* A turn whose agent fails in no way: agent.astream delivers finitely     *)
(* many chunks and ends.  The consumer keeps iterating the generator       *)
(* (StreamingResponse, chat.py line 110) and the source, having delivered  *)
(* its last chunk, ends: weak fairness of Yield and of AstreamExhausted.   *)
(***************************************************************************)

NextNormal ==
    \/ CreateAgent
    \/ \E chunk \in ScenarioChunks : Len(inbound) < MaxUnits /\ Pull(chunk)
    \/ AstreamExhausted
    \/ Yield

SpecNormal ==
    Init /\ [][NextNormal]_vars /\ WF_vars(Yield) /\ WF_vars(AstreamExhausted)

\* The generator has returned: nothing is left to yield.
Finished == pc \in {"completed", "failed"} /\ pending = <<>>

(***************************************************************************)
(* Reading the inbound history                                             *)
(*                                                                         *)
(* What each pulled chunk holds, read off the chunk itself and not off the *)
(* translation: the properties below compare the two.                      *)
(***************************************************************************)

Absent(s) == s \in {None, ""}

\* The raw messages of a chunk, in order (none for a "values" snapshot).
RawMessages(chunk) ==
    IF chunk.tag = "values" THEN <<>>
    ELSE IF chunk.form = "object" THEN <<chunk.items[1]>>
    ELSE IF chunk.tag = NoTag /\ chunk.form # "list" THEN <<>>
    ELSE chunk.items

\* A tool-call entry that is a ToolCallRequest: it has a name and an id.
IsRequest(tc) == ~Absent(tc.name) /\ ~Absent(tc.id)

\* The first entry of a message whose merge raises (0: none does).  The
\* entries after it are never reached.
FirstRaising(msg) ==
    LET bad == {k \in 1..Len(msg.tool_calls) :
                   IsRequest(msg.tool_calls[k]) /\ ~msg.tool_calls[k].mapping}
    IN IF bad = {} THEN 0 ELSE CHOOSE k \in bad : \A j \in bad : k <= j

Reached(msg, k) == FirstRaising(msg) = 0 \/ k <= FirstRaising(msg)

\* The number of records one raw message is due.
MessageRecordCount(msg) ==
    CASE msg.kind = "ToolMessage" -> 1
      [] msg.kind = "AIMessageChunk" ->
           (IF Absent(msg.content) THEN 0 ELSE 1)
           + Cardinality({k \in 1..Len(msg.tool_calls) :
                            /\ IsRequest(msg.tool_calls[k])
                            /\ msg.tool_calls[k].mapping
                            /\ Reached(msg, k)})
           + (IF FirstRaising(msg) # 0 THEN 1
              ELSE Cardinality({k \in 1..Len(msg.tool_call_chunks) :
                                  ~Absent(msg.tool_call_chunks[k].args)}))
      [] OTHER -> 0

RECURSIVE SumRecordCounts(_, _)
SumRecordCounts(msgs, i) ==
    IF i > Len(msgs) THEN 0
    ELSE MessageRecordCount(msgs[i]) + SumRecordCounts(msgs, i + 1)

\* The number of records one inbound chunk is due.
UnitRecordCount(chunk) ==
    IF chunk.tag = "values"
    THEN (IF chunk.form = "dict" /\ chunk.items = <<>> THEN 0 ELSE 1)
    ELSE SumRecordCounts(RawMessages(chunk), 1)

\* Lexicographic order of origins.
LexLess(a, b) ==
    \E i \in 1..4 : a[i] < b[i] /\ \A j \in 1..(i - 1) : a[j] = b[j]

\* out[i] was derived from an inbound unit (not yielded by the driver itself).
FromUnit(i) == origin[i][2] > 0

\* The record out[i] is the translation of the place origin[i] names.
SourceMatches(i) ==
    LET rec == out[i]
        chunk == inbound[origin[i][1]]
        part == origin[i][3]
        k == origin[i][4]
    IN IF chunk.tag = "values" THEN rec.type \in {"messages", "error"}
       ELSE LET msg == RawMessages(chunk)[origin[i][2]] IN
            CASE part = 1 /\ msg.kind = "ToolMessage" ->
                   /\ rec.type = "tool_result"
                   /\ rec.tool_call_id = msg.tool_call_id
                   /\ rec.content = msg.content
              [] part = 1 /\ msg.kind # "ToolMessage" ->
                   rec.type = "delta" /\ rec.content = msg.content
              [] part = 2 ->
                   /\ rec.type = "tool_call"
                   /\ rec.id = msg.tool_calls[k].id
                   /\ rec.name = msg.tool_calls[k].name
              [] part = 3 ->
                   /\ rec.type = "tool_call_chunk"
                   /\ rec.id = msg.tool_call_chunks[k].id
                   /\ rec.index = msg.tool_call_chunks[k].index
                   /\ rec.args = msg.tool_call_chunks[k].args
              [] OTHER -> rec.type = "error"

\* The call ids a chunk may name, valid or not.
CallIds == {"c1", "c2"}

\* The places <<unit, message>> of the raw messages pulled so far.
MessagePlaces ==
    UNION {{<<u, m>> : m \in 1..Len(RawMessages(inbound[u]))} : u \in 1..Len(inbound)}

MessageAt(p) == RawMessages(inbound[p[1]])[p[2]]

\* The places of the ToolCallRequests for call id X that were reached.
Requests(X) ==
    UNION {{<<p[1], p[2], 2, k>> :
              k \in {k \in 1..Len(MessageAt(p).tool_calls) :
                       /\ IsRequest(MessageAt(p).tool_calls[k])
                       /\ MessageAt(p).tool_calls[k].id = X
                       /\ Reached(MessageAt(p), k)}} :
           p \in {p \in MessagePlaces : MessageAt(p).kind = "AIMessageChunk"}}

\* The places of the ToolResults for call id X.
Results(X) ==
    {<<p[1], p[2], 1, 0>> :
        p \in {p \in MessagePlaces : /\ MessageAt(p).kind = "ToolMessage"
                                     /\ MessageAt(p).tool_call_id = X}}

\* The places of the ToolCallArgFragments for call id X.
Fragments(X) ==
    UNION {{<<p[1], p[2], 3, k>> :
              k \in {k \in 1..Len(MessageAt(p).tool_call_chunks) :
                       MessageAt(p).tool_call_chunks[k].id = X}} :
           p \in {p \in MessagePlaces : /\ MessageAt(p).kind = "AIMessageChunk"
                                        /\ FirstRaising(MessageAt(p)) = 0}}

\* The mapping a request at place q hands to the merge (nothing when the
\* merge raises).
ArgsAt(q) ==
    LET tc == MessageAt(q).tool_calls[q[4]]
    IN IF tc.mapping THEN tc.args ELSE EmptyDict

\* The place after everything pulled so far.
End == <<Len(inbound) + 1, 0, 0, 0>>

\* Of the places S, those at or before place p with no ToolResult for X
\* between them and p.
Live(S, X, p) ==
    {q \in S : /\ LexLess(q, p) \/ q = p
               /\ \A r \in Results(X) : LexLess(r, p) => LexLess(r, q)}

\* The left-to-right shallow overwrite of the mappings at places S: each key
\* has the value of the last mapping that holds it.
LastWriter(S) ==
    LET holders(k) == {q \in S : k \in DOMAIN ArgsAt(q)}
        last(k) == CHOOSE q \in holders(k) : \A r \in holders(k) : r = q \/ LexLess(r, q)
    IN [k \in UNION {DOMAIN ArgsAt(q) : q \in S} |-> ArgsAt(last(k))[k]]

\* The chunk pulled by this step, when this step pulls one.
Pulling == Len(inbound') = Len(inbound) + 1

Pulled == inbound'[Len(inbound')]

\* A chunk that is one ToolCallRequest whose args are a mapping, and
\* nothing else.
SoleRequest(chunk) ==
    /\ chunk = Streamed(chunk.items[1])
    /\ chunk.items[1].kind = "AIMessageChunk"
    /\ Absent(chunk.items[1].content)
    /\ chunk.items[1].tool_call_chunks = <<>>
    /\ Len(chunk.items[1].tool_calls) = 1
    /\ IsRequest(chunk.items[1].tool_calls[1])
    /\ chunk.items[1].tool_calls[1].mapping

EntryOf(acc, X) == IF X \in DOMAIN acc THEN acc[X] ELSE EmptyDict

(***************************************************************************)
(* Claims                                                                  *)
(***************************************************************************)

\* C1: every invocation of the stream driver yields exactly one [DONE]
\* frame and it is the last record, on the success path and on every
\* failure path (agent.astream raising included).
C1_ExactlyOneDoneLast ==
    Finished =>
        /\ out # <<>>
        /\ out[Len(out)] = DoneFrame
        /\ \A i \in 1..(Len(out) - 1) : out[i] # DoneFrame

\* C2: the records appear in the order of the inbound units they derive
\* from, the records of one unit in the order of their places in the unit,
\* and each record is the translation of its place.
C2_Ordering ==
    /\ \A i, j \in 1..Len(out) :
          (i < j /\ FromUnit(i)) => LexLess(origin[i], origin[j])
    /\ \A i \in 1..Len(out) : FromUnit(i) => SourceMatches(i)

C2_Witness ==
    \E i, j, k \in 1..Len(out) :
        /\ i < j /\ j < k
        /\ origin[i][1] = origin[j][1] /\ origin[i][2] < origin[j][2]
        /\ origin[j][1] < origin[k][1] /\ FromUnit(k)

\* C3: when agent.astream raises while the driver is running, the driver
\* yields exactly one error record with its traceback after all records
\* already forwarded, nothing derived from a unit after it, and then the
\* terminal marker.
C3_DriverErrorThenDone ==
    (Finished /\ \E i \in 1..Len(out) : out[i] = StreamError) =>
        LET n == Len(out) IN
        /\ n >= 2
        /\ out[n] = DoneFrame
        /\ out[n - 1] = StreamError
        /\ StreamError.traceback
        /\ \A i \in 1..(n - 2) : FromUnit(i)

\* C4: no batching and no look-ahead: when a unit is pulled every record of
\* the units before it is with the transport, the records of the current
\* unit are with the transport or next to be yielded, and the driver yields
\* a record of its own only on a terminal condition.
C4_ImmediateForwarding ==
    /\ \A u \in 1..Len(inbound) :
          Cardinality({i \in 1..Len(out) : FromUnit(i) /\ origin[i][1] = u})
            + (IF u = Len(inbound) /\ pc = "running" THEN Len(pending) ELSE 0)
          = UnitRecordCount(inbound[u])
    /\ \A i \in 1..Len(out) :
          /\ origin[i][1] \in 1..(Len(inbound) + 1)
          /\ ~FromUnit(i) => pc \in {"completed", "failed"}
    /\ pc = "idle" => out = <<>> /\ pending = <<>>

C4_Witness ==
    /\ pc = "running"
    /\ Len(inbound) >= 2
    /\ Len(pending) >= 2
    /\ Cardinality({i \in 1..Len(out) : origin[i][1] = 1}) >= 2
    /\ \E i \in 1..Len(out) : origin[i][1] = Len(inbound)

\* C5: the scenario of section 8 followed by normal exhaustion yields
\* exactly delta("Hi"), tool_call(c1, gen, {}), two tool_call_chunk records,
\* tool_result(c1, "ok") and the terminal marker, in this order.
ScenarioOut ==
    << DeltaEvent("Hi"),
       ToolCallEvent("c1", "gen", EmptyDict),
       ToolCallChunkEvent(0, "c1", "{\"prompt\""),
       ToolCallChunkEvent(0, "c1", ":\"cat\"}"),
       ToolResultEvent("c1", "ok"),
       DoneFrame >>

ScenarioDone == inbound = Scenario /\ pc = "completed" /\ pending = <<>>

C5_Scenario == ScenarioDone => out = ScenarioOut

C5_Witness == ScenarioDone

\* The accumulated arguments of every call id are the left-to-right shallow
\* overwrite of the mappings merged since its last ToolResult.
AccumulatedIsOverwrite ==
    \A X \in CallIds :
        Live(Requests(X), X, End) # {} =>
            /\ X \in DOMAIN tool_call_args
            /\ tool_call_args[X] = LastWriter(Live(Requests(X), X, End))

MergeExample ==
    inbound = << Streamed(ToolCallRequest("c1", "gen", [a |-> 1])),
                 Streamed(ToolCallRequest("c1", "gen", [b |-> 2])),
                 Streamed(ToolCallRequest("c1", "gen", [a |-> 1])) >>

\* One merge step: the keys of the merged mapping take its values, the
\* other keys keep theirs, no key is removed and no other entry changes.
MergeStep(tc) ==
    LET old == EntryOf(tool_call_args, tc.id)
        new == tool_call_args'[tc.id]
    IN /\ DOMAIN tool_call_args' = DOMAIN tool_call_args \cup {tc.id}
       /\ DOMAIN new = DOMAIN old \cup DOMAIN tc.args
       /\ \A k \in DOMAIN tc.args : new[k] = tc.args[k]
       /\ \A k \in DOMAIN old \ DOMAIN tc.args : new[k] = old[k]
       /\ \A Y \in DOMAIN tool_call_args \ {tc.id} : tool_call_args'[Y] = tool_call_args[Y]
       /\ tc.args = EmptyDict => new = old

\* The entry already holds every key of the mapping with the same value.
Holds(entry, args) ==
    \A k \in DOMAIN args : k \in DOMAIN entry /\ entry[k] = args[k]

\* The mapping was merged before for this id, since its last ToolResult.
AlreadyMerged(tc) ==
    \E q \in Live(Requests(tc.id), tc.id, End) : ArgsAt(q) = tc.args

\* C6 (as amended): the accumulated arguments are the left-to-right shallow
\* overwrite of the merged mappings ({a:1}, {b:2}, {a:1} gives {a:1,b:2}); a
\* later mapping replaces the value of a key it repeats; merging a mapping
\* whose keys already hold its values changes nothing; merging an empty
\* mapping removes no key and leaves the entry unchanged.
C6_ShallowOverwrite ==
    /\ [](AccumulatedIsOverwrite
          /\ (MergeExample => tool_call_args = [c1 |-> [a |-> 1, b |-> 2]]))
    /\ [][(Pulling /\ SoleRequest(Pulled)) =>
            LET tc == Pulled.items[1].tool_calls[1]
            IN /\ MergeStep(tc)
               /\ Holds(EntryOf(tool_call_args, tc.id), tc.args) =>
                     tool_call_args'[tc.id] = EntryOf(tool_call_args, tc.id)]_vars

C6_Witness == MergeExample /\ tool_call_args = [c1 |-> [a |-> 1, b |-> 2]]

\* C6 as stated: the same, with "merging a mapping already merged changes
\* nothing" for every mapping merged before.
C6_AlreadyMergedChangesNothing ==
    /\ [](AccumulatedIsOverwrite
          /\ (MergeExample => tool_call_args = [c1 |-> [a |-> 1, b |-> 2]]))
    /\ [][(Pulling /\ SoleRequest(Pulled)) =>
            LET tc == Pulled.items[1].tool_calls[1]
            IN /\ MergeStep(tc)
               /\ AlreadyMerged(tc) =>
                     tool_call_args'[tc.id] = EntryOf(tool_call_args, tc.id)]_vars

\* C7: after a ToolResult for X the accumulator holds no entry for X (until
\* a later request), and a tool_call record for X that comes after a
\* ToolResult for X carries exactly the overwrite of the mappings requested
\* since that result: no key accumulated before it.
C7_ReleaseThenFresh ==
    /\ \A X \in CallIds :
          (Results(X) # {} /\ Live(Requests(X), X, End) = {}) =>
              X \notin DOMAIN tool_call_args
    /\ \A i \in 1..Len(out) :
          (/\ out[i].type = "tool_call"
           /\ \E r \in Results(out[i].id) : LexLess(r, origin[i])) =>
              out[i].arguments = LastWriter(Live(Requests(out[i].id), out[i].id, origin[i]))

C7_Witness ==
    \E i \in 1..Len(out) :
        /\ out[i].type = "tool_call"
        /\ \E r \in Results(out[i].id) :
              /\ LexLess(r, origin[i])
              /\ \E q \in Requests(out[i].id) :
                    /\ LexLess(q, r)
                    /\ \E k \in DOMAIN ArgsAt(q) : k \notin DOMAIN out[i].arguments

\* C8 (as amended): the accumulator has an entry for X exactly when a
\* ToolCallRequest for X was processed and no ToolResult for X since;
\* argument fragments create no entry.
C8_EntryIffRequested ==
    /\ DOMAIN tool_call_args \subseteq CallIds
    /\ \A X \in CallIds :
          X \in DOMAIN tool_call_args <=> Live(Requests(X), X, End) # {}

C8_Witness ==
    /\ "c2" \in DOMAIN tool_call_args
    /\ "c1" \notin DOMAIN tool_call_args
    /\ Requests("c1") # {}
    /\ Results("c1") # {}
    /\ Live(Fragments("c1"), "c1", End) # {}

\* C8 as stated: exactly when a ToolCallRequest or an argument fragment
\* for X was seen and no ToolResult for X since.
C8_EntryIffRequestOrFragment ==
    \A X \in CallIds :
        X \in DOMAIN tool_call_args <=>
            Live(Requests(X) \cup Fragments(X), X, End) # {}

\* A chunk that is one raw message holding tool-call entries only, each
\* without a name or without an id.
OnlyInvalidRequests(chunk) ==
    /\ chunk = Streamed(chunk.items[1])
    /\ chunk.items[1].kind = "AIMessageChunk"
    /\ Absent(chunk.items[1].content)
    /\ chunk.items[1].tool_call_chunks = <<>>
    /\ chunk.items[1].tool_calls # <<>>
    /\ \A k \in 1..Len(chunk.items[1].tool_calls) : ~IsRequest(chunk.items[1].tool_calls[k])

\* C9: a ToolCallRequest without a name or without an id produces no record
\* (no error record either) and leaves the accumulator unchanged.
C9_InvalidRequestIgnored ==
    [][(Pulling /\ OnlyInvalidRequests(Pulled)) =>
          /\ pending' = <<>>
          /\ out' = out
          /\ tool_call_args' = tool_call_args]_vars

C9_Witness ==
    /\ pc = "running"
    /\ pending = <<>>
    /\ \E X \in DOMAIN tool_call_args : tool_call_args[X] # EmptyDict
    /\ \E u, v \in 1..Len(inbound) :
          /\ OnlyInvalidRequests(inbound[u])
          /\ Absent(inbound[u].items[1].tool_calls[1].name)
          /\ OnlyInvalidRequests(inbound[v])
          /\ Absent(inbound[v].items[1].tool_calls[1].id)
    /\ OnlyInvalidRequests(inbound[Len(inbound)])

\* The <<id, name>> of the tool_call records yielded from message m of
\* unit u, in the order yielded.
ToolCallsOut(u, m) ==
    LET From(i) == origin[i][1] = u /\ origin[i][2] = m /\ origin[i][3] = 2
        at == SelectSeq([i \in 1..Len(out) |-> i], From)
    IN [n \in 1..Len(at) |-> <<out[at[n]].id, out[at[n]].name>>]

\* The <<id, name>> of the entries of a raw message that have both.
RequestsIn(msg) ==
    LET named == SelectSeq(msg.tool_calls, IsRequest)
    IN [n \in 1..Len(named) |-> <<named[n].id, named[n].name>>]

\* Every record of unit u is with the transport.
UnitYielded(u) == u < Len(inbound) \/ pending = <<>> \/ pc # "running"

MissingName(msg) ==
    /\ msg.kind = "AIMessageChunk"
    /\ \E k \in 1..Len(msg.tool_calls) : Absent(msg.tool_calls[k].name)

\* C10: in a raw chunk with several tool-call entries of which one misses
\* its name, the valid entries (before and after it) each produce their
\* tool_call record, in source order, and the invalid one none.
C10_SiblingsUnaffected ==
    \A p \in MessagePlaces :
        (UnitYielded(p[1]) /\ MissingName(MessageAt(p)) /\ FirstRaising(MessageAt(p)) = 0) =>
            ToolCallsOut(p[1], p[2]) = RequestsIn(MessageAt(p))

C10_Witness ==
    \E p \in MessagePlaces :
        /\ UnitYielded(p[1])
        /\ MissingName(MessageAt(p))
        /\ \E j, k, l \in 1..Len(MessageAt(p).tool_calls) :
              /\ j < k /\ k < l
              /\ IsRequest(MessageAt(p).tool_calls[j])
              /\ Absent(MessageAt(p).tool_calls[k].name)
              /\ IsRequest(MessageAt(p).tool_calls[l])
        /\ Len(ToolCallsOut(p[1], p[2])) >= 2

\* The indices of the records yielded from place q.
RecordsOf(q) == {i \in 1..Len(out) : origin[i] = q}

\* The requests for X that were reached and whose args are a mapping.
MappingRequests(X) == {q \in Requests(X) : MessageAt(q).tool_calls[q[4]].mapping}

\* C11: each valid ToolCallRequest yields exactly one tool_call record, with
\* its id and name and as arguments the full merged mapping of that id once
\* its own args are merged; a further request for the same id yields a
\* record with the cumulative arguments.
C11_OneToolCallPerRequest ==
    \A X \in CallIds : \A q \in MappingRequests(X) :
        UnitYielded(q[1]) =>
            /\ Cardinality(RecordsOf(q)) = 1
            /\ \A i \in RecordsOf(q) :
                  /\ out[i].type = "tool_call"
                  /\ out[i].id = X
                  /\ out[i].name = MessageAt(q).tool_calls[q[4]].name
                  /\ out[i].arguments = LastWriter(Live(Requests(X), X, q))
                  /\ \A k \in DOMAIN ArgsAt(q) : out[i].arguments[k] = ArgsAt(q)[k]

C11_Witness ==
    \E i, j \in 1..Len(out) :
        /\ i < j
        /\ out[i].type = "tool_call" /\ out[j].type = "tool_call"
        /\ out[i].id = out[j].id
        /\ origin[j] \in MappingRequests(out[j].id)
        /\ origin[i] \in Live(Requests(out[j].id), out[j].id, origin[j])
        /\ ArgsAt(origin[j]) # EmptyDict
        /\ \E k \in DOMAIN out[j].arguments :
              k \notin DOMAIN ArgsAt(origin[j]) /\ k \in DOMAIN ArgsAt(origin[i])

\* A chunk of LangGraph's messages mode that is one ToolMessage.
SoleResult(chunk) ==
    /\ chunk.tag = "messages" /\ chunk.form = "iterable" /\ chunk.items # <<>>
    /\ chunk = Streamed(chunk.items[1])
    /\ chunk.items[1].kind = "ToolMessage"

\* The accumulator after the step is the one before without the entry of X:
\* no other entry is added, removed or changed.
ReleasedOnly(X) ==
    /\ DOMAIN tool_call_args' = DOMAIN tool_call_args \ {X}
    /\ \A Y \in DOMAIN tool_call_args' : tool_call_args'[Y] = tool_call_args[Y]

\* Every ToolResult pulled so far has exactly one record, a tool_result
\* with its call id and content.
OneResultRecordEach ==
    \A X \in CallIds : \A r \in Results(X) :
        UnitYielded(r[1]) =>
            /\ Cardinality(RecordsOf(r)) = 1
            /\ \A i \in RecordsOf(r) :
                  /\ out[i] = [type |-> "tool_result", tool_call_id |-> X,
                               content |-> MessageAt(r).content]
                  /\ out[i].content # None

\* C12: a ToolResult for X yields exactly one tool_result record with id X
\* and the same content and no other record, and releases X; releasing is
\* idempotent: with no entry for X (never requested or already released) the
\* record is still yielded, no error record is, and the other entries are
\* left as they were.
C12_ResultReleases ==
    /\ []OneResultRecordEach
    /\ [][(Pulling /\ SoleResult(Pulled)) =>
            LET msg == Pulled.items[1]
            IN /\ Len(pending') = 1
               /\ pending'[1].rec.type = "tool_result"
               /\ pending'[1].rec.tool_call_id = msg.tool_call_id
               /\ pending'[1].rec.content = msg.content
               /\ ReleasedOnly(msg.tool_call_id)
               /\ out' = out]_vars

C12_Witness ==
    /\ Len(inbound) = 3
    /\ inbound[1] = Streamed(MixedChunk)
    /\ SoleResult(inbound[2]) /\ inbound[2].items[1].tool_call_id = "c1"
    /\ inbound[3] = inbound[2]
    /\ pending = <<>>
    /\ tool_call_args = [c2 |-> [b |-> 2]]
    /\ Cardinality({i \in 1..Len(out) : out[i] = ToolResultEvent("c1", "ok")}) = 2
    /\ \A i \in 1..Len(out) : out[i].type # "error"

\* A chunk of LangGraph's messages mode that is one ToolCallArgFragment and
\* nothing else.
SoleFragment(chunk) ==
    /\ chunk.tag = "messages" /\ chunk.form = "iterable" /\ chunk.items # <<>>
    /\ chunk = Streamed(chunk.items[1])
    /\ chunk.items[1].kind = "AIMessageChunk"
    /\ Absent(chunk.items[1].content)
    /\ chunk.items[1].tool_calls = <<>>
    /\ Len(chunk.items[1].tool_call_chunks) = 1

\* C13: a ToolCallArgFragment yields one tool_call_chunk record with its
\* index, id and fragment when the fragment is not empty and no record when
\* it is empty; either way the record does not depend on the accumulator
\* and the accumulator is left as it was.
C13_FragmentFrame ==
    [][(Pulling /\ SoleFragment(Pulled)) =>
          LET f == Pulled.items[1].tool_call_chunks[1]
          IN /\ tool_call_args' = tool_call_args
             /\ out' = out
             /\ IF Absent(f.args)
                THEN pending' = <<>>
                ELSE /\ Len(pending') = 1
                     /\ pending'[1].rec = [type |-> "tool_call_chunk", index |-> f.index,
                                           id |-> f.id, args |-> f.args]]_vars

C13_Witness ==
    /\ Len(inbound) = 3
    /\ "c2" \in DOMAIN tool_call_args
    /\ tool_call_args["c2"] # EmptyDict
    /\ SoleFragment(inbound[2]) /\ Absent(inbound[2].items[1].tool_call_chunks[1].args)
    /\ SoleFragment(inbound[3]) /\ ~Absent(inbound[3].items[1].tool_call_chunks[1].args)
    /\ inbound[3].items[1].tool_call_chunks[1].id = "c2"
    /\ pending = <<>>
    /\ Cardinality({i \in 1..Len(out) : out[i].type = "tool_call_chunk"}) = 1

\* A chunk of LangGraph's messages mode that is one TextDelta whose content
\* is empty or null, and nothing else.
SoleEmptyText(chunk) ==
    /\ chunk.tag = "messages" /\ chunk.form = "iterable" /\ chunk.items # <<>>
    /\ chunk = Streamed(chunk.items[1])
    /\ chunk.items[1].kind = "AIMessageChunk"
    /\ Absent(chunk.items[1].content)
    /\ chunk.items[1].tool_calls = <<>>
    /\ chunk.items[1].tool_call_chunks = <<>>

\* C14: a TextDelta whose content is empty or null yields no record and
\* changes no state of the translator (accumulator and log buffer).
C14_EmptyTextIgnored ==
    [][(Pulling /\ SoleEmptyText(Pulled)) =>
          /\ pending' = <<>>
          /\ out' = out
          /\ tool_call_args' = tool_call_args
          /\ text_buffer' = text_buffer]_vars

C14_Witness ==
    /\ Len(inbound) = 3
    /\ inbound[1] = Streamed(TextDelta("Hi"))
    /\ SoleEmptyText(inbound[2]) /\ inbound[2].items[1].content = ""
    /\ SoleEmptyText(inbound[3]) /\ inbound[3].items[1].content = None
    /\ pc = "running" /\ pending = <<>>
    /\ out = <<DeltaEvent("Hi")>>
    /\ text_buffer.len = 2

\* A FullState unit: a pair tagged "values" whose data is the state dict.
FullState(chunk) == chunk.tag = "values" /\ chunk.form = "dict"

\* The wire shape of a snapshot: role and content of each message, in
\* order, and no internal-only field.
Normalized(messages, snapshot) ==
    /\ Len(messages) = Len(snapshot)
    /\ \A i \in 1..Len(snapshot) :
          /\ DOMAIN messages[i] = {"role", "content"}
          /\ messages[i].content = snapshot[i].content
          /\ messages[i].role = (IF snapshot[i].type = "human" THEN "user"
                                 ELSE IF snapshot[i].type = "ai" THEN "assistant"
                                 ELSE "tool")

\* The indices of the records yielded from unit u.
RecordsOfUnit(u) == {i \in 1..Len(out) : FromUnit(i) /\ origin[i][1] = u}

\* C15: a FullState unit yields exactly one messages record carrying the
\* normalized snapshot, for every snapshot, the empty one included.
C15_OneMessagesRecord ==
    \A u \in 1..Len(inbound) :
        (FullState(inbound[u]) /\ UnitYielded(u)) =>
            /\ Cardinality(RecordsOfUnit(u)) = 1
            /\ \A i \in RecordsOfUnit(u) :
                  /\ out[i].type = "messages"
                  /\ Normalized(out[i].messages, inbound[u].items)

\* The raw messages pulled so far that carry text or a tool result, in
\* arrival order.
RECURSIVE StateOf(_, _)
StateOf(msgs, i) ==
    IF i > Len(msgs) THEN <<>>
    ELSE (CASE msgs[i].kind = "ToolMessage" -> <<StateMessage("tool", msgs[i].content)>>
            [] msgs[i].kind = "AIMessageChunk" /\ ~Absent(msgs[i].content) ->
                 <<StateMessage("ai", msgs[i].content)>>
            [] OTHER -> <<>>) \o StateOf(msgs, i + 1)

\* What the agent added to the conversation in this turn, one state message
\* per raw message (the agent's own bookkeeping joins the text of one reply).
RECURSIVE ConversationState(_)
ConversationState(u) ==
    IF u > Len(inbound) THEN <<>>
    ELSE StateOf(RawMessages(inbound[u]), 1) \o ConversationState(u + 1)

\* The conversation state a consumer rebuilds from the messages records
\* alone: each one supersedes what came before it.
Reconstructed ==
    LET at == {i \in 1..Len(out) : out[i].type = "messages"}
    IN IF at = {} THEN <<>>
       ELSE out[CHOOSE i \in at : \A j \in at : j <= i].messages

\* The agent produced text or tool activity.
Activity ==
    \E i \in 1..Len(out) : out[i].type \in {"delta", "tool_call", "tool_call_chunk", "tool_result"}

\* C16: for every completed stream the state rebuilt from the messages
\* records equals the final conversation state of the turn; a stream with
\* text or tool activity holds at least one messages record.
C16_SnapshotConsistency ==
    (pc = "completed" /\ pending = <<>>) =>
        /\ Normalized(Reconstructed, ConversationState(1))
        /\ Activity => \E i \in 1..Len(out) : out[i].type = "messages"

\* The number of exceptions the handling of a chunk raises: one when a
\* "values" pair holds no dict (line 157), one per raw message whose merge
\* raises (line 251).
Raises(chunk) ==
    IF chunk.tag = "values" THEN (IF chunk.form = "dict" THEN 0 ELSE 1)
    ELSE Cardinality({m \in 1..Len(RawMessages(chunk)) :
                        /\ RawMessages(chunk)[m].kind = "AIMessageChunk"
                        /\ FirstRaising(RawMessages(chunk)[m]) # 0})

ErrorsOfUnit(u) == {i \in RecordsOfUnit(u) : out[i].type = "error"}

\* Every record unit v is due is with the transport, each the translation
\* of its place.
Translated(v) ==
    /\ Cardinality(RecordsOfUnit(v)) = UnitRecordCount(inbound[v])
    /\ \A i \in RecordsOfUnit(v) : SourceMatches(i)

\* C17: an exception raised while one inbound unit is classified or
\* translated is contained at that unit: one error record, of that unit
\* only; the driver stays running, every later unit is still translated and
\* the terminal marker is still yielded when the source is exhausted.
C17_ErrorContained ==
    /\ [](/\ \A u \in 1..Len(inbound) :
               UnitYielded(u) =>
                   /\ Cardinality(ErrorsOfUnit(u)) = Raises(inbound[u])
                   /\ \A i \in ErrorsOfUnit(u) : out[i] # StreamError
          /\ \A u, v \in 1..Len(inbound) :
               (Raises(inbound[u]) > 0 /\ u < v /\ UnitYielded(v)) => Translated(v)
          /\ (pc = "completed" /\ pending = <<>>) =>
                 /\ out[Len(out)] = DoneFrame
                 /\ \A i \in 1..(Len(out) - 1) : out[i] # DoneFrame /\ FromUnit(i))
    /\ [][(Pulling /\ Raises(Pulled) > 0) =>
            /\ pc' = "running"
            /\ pending' # <<>>]_vars

C17_Witness ==
    /\ pc = "completed" /\ pending = <<>>
    /\ Len(inbound) = 3
    /\ inbound[1].tag = "values" /\ Raises(inbound[1]) = 1
    /\ inbound[2].tag = "messages" /\ Raises(inbound[2]) = 1
    /\ Raises(inbound[3]) = 0 /\ UnitRecordCount(inbound[3]) > 0
    /\ Cardinality({i \in 1..Len(out) : out[i].type = "error"}) = 2
    /\ out[Len(out)] = DoneFrame

\* The records a fresh processor yields for the chunks seq from the i-th
\* on, handled alone.
RECURSIVE RunAlone(_, _, _)
RunAlone(seq, i, st) ==
    IF i > Len(seq) THEN <<>>
    ELSE LET r == _handle_chunk(seq[i], st)
         IN [j \in 1..Len(r.events) |-> r.events[j].rec] \o RunAlone(seq, i + 1, r.st)

IsToolCall(rec) == rec.type = "tool_call"

\* The tool_call records a turn has yielded or is about to yield.
ToolCallsOf(yielded, waiting) ==
    SelectSeq(yielded \o [j \in 1..Len(waiting) |-> waiting[j].rec], IsToolCall)

\* C18: the accumulator of an invocation starts empty and no other
\* invocation reads or writes it: for two turns run one after the other or
\* interleaved at any point, with the same call id, the tool_call records
\* of each turn are those its own inbound units give when handled alone.
C18_TurnsIndependent ==
    /\ (pc = "running" /\ inbound = <<>>) => tool_call_args = EmptyDict
    /\ (other.pc = "running" /\ other.inbound = <<>>) => other.tool_call_args = EmptyDict
    /\ ToolCallsOf(out, pending) = SelectSeq(RunAlone(inbound, 1, NewProcessor), IsToolCall)
    /\ ToolCallsOf(other.out, other.pending)
         = SelectSeq(RunAlone(other.inbound, 1, NewProcessor), IsToolCall)

C18_Witness ==
    /\ pc = "running" /\ other.pc = "running"
    /\ tool_call_args = [c1 |-> [a |-> 1]]
    /\ other.tool_call_args = [c1 |-> [b |-> 2]]
    /\ out = <<ToolCallEvent("c1", "gen", [a |-> 1])>>
    /\ other.out = <<ToolCallEvent("c1", "gen", [b |-> 2])>>

Rank(state) ==
    CASE state = "idle" -> 0
      [] state = "running" -> 1
      [] OTHER -> 2

Terminal == pc \in {"completed", "failed"}

\* The terminal marker or a driver-level error record is with the transport.
TerminalRecordOut ==
    \E i \in 1..Len(out) : out[i] \in {DoneFrame, StreamError, ChatStreamError}

\* This step yields a record derived from an inbound unit.
YieldsUnitRecord ==
    /\ Len(out') = Len(out) + 1
    /\ out'[Len(out')].type \in {"delta", "tool_call", "tool_call_chunk", "tool_result", "messages"}

\* C20: the driver states run idle, running, then completed or failed, and
\* the terminal states are absorbing: after the terminal marker or a
\* driver-level error record the driver pulls no further unit and yields no
\* further delta, tool_call, tool_call_chunk, tool_result or messages record.
C20_TerminalAbsorbing ==
    /\ [](pc \in {"idle", "running", "completed", "failed"})
    /\ [][/\ Rank(pc) <= Rank(pc')
          /\ pc = "idle" => pc' \in {"running", "failed"}
          /\ Terminal => pc' = pc]_vars
    /\ [][(Terminal \/ TerminalRecordOut) =>
            /\ inbound' = inbound
            /\ ~YieldsUnitRecord
            /\ tool_call_args' = tool_call_args]_vars

C20_Witness ==
    /\ pc = "failed" /\ pending = <<>>
    /\ Len(inbound) = MaxUnits
    /\ Len(out) >= 3
    /\ out[Len(out)] = StreamError
    /\ FromUnit(Len(out) - 1)

\* C21: exceeding the step budget is reported to the consumer as an error
\* record on the stream, after the records already forwarded, and the
\* generator then returns: no exception leaves it.
C21_BudgetExceededReported ==
    /\ pc \in {"idle", "running", "completed", "failed"}
    /\ pc = "failed" =>
          /\ StepsTaken(inbound) = recursion_limit
          /\ \A i \in 1..Len(out) : FromUnit(i) <=> out[i].type # "error"
          /\ pending = <<>> =>
                /\ out # <<>>
                /\ out[Len(out)].type = "error"
                /\ out[Len(out)].traceback
                /\ \A i \in 1..(Len(out) - 1) : FromUnit(i)
                /\ Cardinality(RecordsOfUnit(Len(inbound))) = UnitRecordCount(inbound[Len(inbound)])

C21_Witness ==
    /\ pc = "failed" /\ pending = <<>>
    /\ Len(inbound) = 3
    /\ Node(inbound[1]) = "agent" /\ Node(inbound[3]) = "tools"
    /\ Len(out) = 4
    /\ out[4] = StreamError

\* The indices of the records yielded from message m of unit u, and those
\* of them of one type.
RecordsOfMessage(u, m) ==
    {i \in 1..Len(out) : FromUnit(i) /\ origin[i][1] = u /\ origin[i][2] = m}

OfType(S, type) == {i \in S : out[i].type = type}

\* The non-empty argument fragments of a raw message.
NonEmptyFragments(msg) ==
    {k \in 1..Len(msg.tool_call_chunks) : ~Absent(msg.tool_call_chunks[k].args)}

\* A raw chunk that carries text, tool-call requests and argument fragments
\* together (and whose merges do not raise).
CarriesAll(msg) ==
    /\ msg.kind = "AIMessageChunk"
    /\ ~Absent(msg.content)
    /\ Len(RequestsIn(msg)) >= 1
    /\ NonEmptyFragments(msg) # {}
    /\ FirstRaising(msg) = 0

\* C22: when one raw chunk carries text, tool-call requests and argument
\* fragments together all of them are yielded: the delta record first, then
\* the tool_call records in the source order of the chunk's tool calls,
\* then the fragments, each before any record of a later unit.
C22_AllEmittedTextFirst ==
    \A p \in MessagePlaces :
        (UnitYielded(p[1]) /\ CarriesAll(MessageAt(p))) =>
            LET all == RecordsOfMessage(p[1], p[2])
                deltas == OfType(all, "delta")
                calls == OfType(all, "tool_call")
                frags == OfType(all, "tool_call_chunk")
            IN /\ all = deltas \cup calls \cup frags
               /\ Cardinality(deltas) = 1
               /\ \A i \in deltas : out[i].content = MessageAt(p).content
               /\ ToolCallsOut(p[1], p[2]) = RequestsIn(MessageAt(p))
               /\ Cardinality(frags) = Cardinality(NonEmptyFragments(MessageAt(p)))
               /\ \A i \in deltas : \A j \in calls : i < j
               /\ \A j \in calls : \A k \in frags : j < k
               /\ \A i \in all : \A j \in 1..Len(out) :
                     (FromUnit(j) /\ origin[j][1] > p[1]) => i < j

C22_Witness ==
    /\ Len(inbound) = 2
    /\ inbound[1] = Streamed(MixedChunk)
    /\ pending = <<>>
    /\ Len(out) = 5
    /\ out[1].type = "delta"
    /\ out[2].type = "tool_call" /\ out[2].id = "c1"
    /\ out[3].type = "tool_call" /\ out[3].id = "c2"
    /\ out[4].type = "tool_call_chunk"
    /\ origin[5][1] = 2

\* A chunk of LangGraph's messages mode that is one TextDelta with content
\* and nothing else.
SoleText(chunk) ==
    /\ chunk.tag = "messages" /\ chunk.form = "iterable" /\ chunk.items # <<>>
    /\ chunk = Streamed(chunk.items[1])
    /\ chunk.items[1].kind = "AIMessageChunk"
    /\ ~Absent(chunk.items[1].content)
    /\ chunk.items[1].tool_calls = <<>>
    /\ chunk.items[1].tool_call_chunks = <<>>

\* C23: every TextDelta with non-empty content yields exactly one delta
\* record with the same content, in the step that handles it, whatever the
\* log buffer holds (nothing, some text, or text this delta flushes).
C23_DeltaRegardlessOfBuffer ==
    /\ [][(Pulling /\ SoleText(Pulled)) =>
            /\ Len(pending') = 1
            /\ pending'[1].rec = [type |-> "delta", content |-> Pulled.items[1].content]
            /\ tool_call_args' = tool_call_args]_vars
    /\ [](\A u \in 1..Len(inbound) :
            (SoleText(inbound[u]) /\ UnitYielded(u)) =>
                /\ Cardinality(RecordsOfUnit(u)) = 1
                /\ \A i \in RecordsOfUnit(u) :
                      out[i] = [type |-> "delta", content |-> inbound[u].items[1].content])

C23_Witness ==
    /\ inbound = << Streamed(TextDelta("Hi")), Streamed(TextDelta(LongSentence)),
                    Streamed(TextDelta("Hi")) >>
    /\ pc = "running" /\ pending = <<>>
    /\ text_buffer.len = 2
    /\ Len(out) = 3
    /\ out[2].content = LongSentence

IsPrefix(a, b) == Len(a) <= Len(b) /\ \A i \in 1..Len(a) : a[i] = b[i]

IsUnitRecord(rec) == rec \notin {DoneFrame, StreamError, ChatStreamError}

\* The unit-derived records a turn has yielded or is about to yield.
UnitRecordsOf(yielded, waiting) ==
    SelectSeq(yielded \o [j \in 1..Len(waiting) |-> waiting[j].rec], IsUnitRecord)

CompletedCleanly ==
    /\ pc = "completed"
    /\ pending = <<>>
    /\ out # <<>>
    /\ out[Len(out)] = DoneFrame
    /\ \A i \in 1..(Len(out) - 1) : FromUnit(i) /\ IsUnitRecord(out[i])
    /\ \A u \in 1..Len(inbound) :
          Cardinality(RecordsOfUnit(u)) = UnitRecordCount(inbound[u])

\* C25: if the event source delivers finitely many units and then ends
\* normally, the driver eventually is completed: the terminal marker
\* follows the records of the last unit and there is no driver-level error
\* record.
C25_EventuallyCompleted == (pc = "running") ~> CompletedCleanly

C25_Witness ==
    /\ CompletedCleanly
    /\ Len(inbound) = MaxUnits
    /\ Len(out) = MaxUnits + 1

\* An error record that tells what failed.
Informative(rec) == rec.type = "error" /\ ~Absent(rec.error)

IsDriverError(rec) == rec \in {StreamError, ChatStreamError}

\* The driver-level error records yielded or waiting to be yielded.
DriverErrors ==
    Cardinality({i \in 1..Len(out) : IsDriverError(out[i])})
    + Cardinality({j \in 1..Len(pending) : IsDriverError(pending[j].rec)})

\* C26: no failure leaves the generator as an exception: when the creation
\* of the agent fails, when the event source raises or when the handling of
\* a unit raises, the generator yields an informative error record and then
\* returns (or, for a unit, goes on).
C26_NoFailureEscapes ==
    /\ pc \in {"idle", "running", "completed", "failed"}
    /\ DriverErrors = (IF pc = "failed" THEN 1 ELSE 0)
    /\ \A i \in 1..Len(out) : out[i].type = "error" => Informative(out[i])
    /\ \A u \in 1..Len(inbound) :
          UnitYielded(u) => Cardinality(ErrorsOfUnit(u)) = Raises(inbound[u])
    /\ (Finished /\ pc = "failed") =>
          /\ \E i \in 1..Len(out) : IsDriverError(out[i])
          /\ \A i \in 1..Len(out) :
                IsDriverError(out[i]) =>
                    \A j \in (i + 1)..Len(out) : out[j] = DoneFrame
          /\ (inbound = <<>> /\ ChatStreamError = out[1]) => out = <<ChatStreamError, DoneFrame>>

C26_Witness ==
    /\ Finished /\ pc = "failed"
    /\ Len(inbound) = 2
    /\ Raises(inbound[1]) = 1 /\ Raises(inbound[2]) = 1
    /\ inbound[1].tag = "values" /\ inbound[2].tag = "messages"
    /\ Cardinality({i \in 1..Len(out) : out[i].type = "error"}) = 3
    /\ out[Len(out)] = StreamError

\* The creation of the agent failed: the driver failed without ever running.
CreationFailed ==
    pc = "failed" /\ \E rec \in {out[i] : i \in 1..Len(out)} \cup {pending[j].rec : j \in 1..Len(pending)} :
                        rec = ChatStreamError

\* C27: when the creation of the agent fails before the stream starts
\* process_chat_stream pulls no unit from any event source and its whole
\* output is exactly one error record followed by exactly one [DONE] frame.
C27_CreationFailure ==
    /\ [][(pc = "idle" /\ pc' = "failed") =>
            /\ inbound' = <<>>
            /\ Len(pending') = 2
            /\ pending'[1].rec.type = "error"
            /\ pending'[2].rec = DoneFrame
            /\ out' = <<>>]_vars
    /\ [](CreationFailed =>
            /\ inbound = <<>>
            /\ tool_call_args = EmptyDict
            /\ IsPrefix(out, <<ChatStreamError, DoneFrame>>)
            /\ pending = <<>> => out = <<ChatStreamError, DoneFrame>>)
    /\ [][CreationFailed => (inbound' = inbound /\ pc' = pc)]_vars

C27_Witness ==
    /\ CreationFailed
    /\ pending = <<>>
    /\ inbound = <<>>
    /\ Len(out) = 2
    /\ out[1].type = "error" /\ out[2] = DoneFrame

\* A raw message whose translation raises.
RaisesIn(msg) == msg.kind = "AIMessageChunk" /\ FirstRaising(msg) # 0

\* Every record message m of unit u is due is with the transport, each the
\* translation of its place.
MessageTranslated(u, m) ==
    /\ Cardinality(RecordsOfMessage(u, m)) = MessageRecordCount(RawMessages(inbound[u])[m])
    /\ \A i \in RecordsOfMessage(u, m) : SourceMatches(i)

\* C28: when an inbound unit is a list of raw messages (bare or in a tagged
\* pair) and the translation of one message raises, the failure is
\* contained to that message: the records it had yielded stay, one error
\* record is yielded for it, and every later message of the unit is still
\* translated, in order.
C28_ContainedToMessage ==
    \A p \in MessagePlaces :
        (/\ inbound[p[1]].form = "list"
         /\ UnitYielded(p[1])
         /\ RaisesIn(MessageAt(p))) =>
            LET u == p[1]
                mine == RecordsOfMessage(u, p[2])
                errors == OfType(mine, "error")
            IN /\ Cardinality(errors) = 1
               /\ \A e \in errors : \A i \in mine : i <= e
               /\ OfType(mine, "delta") # {} /\ OfType(mine, "tool_call") # {}
               /\ MessageTranslated(u, p[2])
               /\ \A m \in (p[2] + 1)..Len(RawMessages(inbound[u])) :
                     /\ MessageTranslated(u, m)
                     /\ RecordsOfMessage(u, m) # {}
                     /\ \A i \in RecordsOfMessage(u, m) :
                           \A j \in RecordsOfMessage(u, m - 1) : j < i

C28_Witness ==
    /\ Len(inbound) = 2
    /\ inbound[1].tag = "messages" /\ inbound[1].form = "list"
    /\ inbound[2].tag = NoTag /\ inbound[2].form = "list" /\ Len(inbound[2].items) = 3
    /\ pending = <<>>
    /\ Cardinality({i \in 1..Len(out) : out[i].type = "error"}) = 2
    /\ out[Len(out)] = ToolResultEvent("c1", "ok")
    /\ out[Len(out) - 1] = ToolCallEvent("c2", "gen", [a |-> 1])

\* A chunk that holds no ToolMessage and no AIMessageChunk: an empty list,
\* or objects of another kind only.
NoMessage(chunk) ==
    /\ chunk.tag # "values"
    /\ \A m \in 1..Len(RawMessages(chunk)) : RawMessages(chunk)[m].kind = "Other"

\* C29: a raw message unit that is neither a tool result nor an AI message
\* chunk (the metadata delivered next to a message, an empty list) yields
\* no record, no error record either, and leaves the accumulator unchanged.
C29_UnknownIgnored ==
    /\ [][(Pulling /\ NoMessage(Pulled)) =>
            /\ pending' = <<>>
            /\ out' = out
            /\ tool_call_args' = tool_call_args
            /\ text_buffer' = text_buffer]_vars
    /\ [](\A p \in MessagePlaces :
            MessageAt(p).kind = "Other" => RecordsOfMessage(p[1], p[2]) = {})

C29_Witness ==
    /\ Len(inbound) = 3
    /\ inbound[1] = Streamed(ToolCallRequest("c1", "gen", [a |-> 1]))
    /\ inbound[2] = Chunk(NoTag, "list", <<>>)
    /\ inbound[3] = Chunk(NoTag, "object", <<OtherObject>>)
    /\ pc = "running" /\ pending = <<>>
    /\ out = <<ToolCallEvent("c1", "gen", [a |-> 1])>>
    /\ tool_call_args = [c1 |-> [a |-> 1]]

\* ---------------------------------------------------------------------
\* The canvas history (history_service.py).  The router handlers are
\* coroutines that call the service without awaiting inside it, so each
\* call loads, changes and saves the list in one step.

\* dict.get(key): None when the key is missing.
Get(d, key) == IF key \in DOMAIN d THEN d[key] ELSE None

CanvasIds == {"a", "b", "c"}
CanvasNames == {"n1", "n2"}

\* The JSON bodies posted to /canvases: stored as they come, so a body
\* may lack the id key.
CanvasData ==
    [id : CanvasIds, name : CanvasNames] \cup { [name |-> "n1"] }

\* What save_canvas stores when it inserts every body at the front.
save_canvas_always_insert(stored, canvas_data) == <<canvas_data>> \o stored

\* save_canvas: the list it saves.  index is that of the first stored
\* canvas with the same id, -1 when there is none.
save_canvas(stored, canvas_data) ==
    LET same == { i \in 1..Len(stored) :
                    Get(stored[i], "id") = Get(canvas_data, "id") }
        index == IF same = {} THEN -1
                 ELSE (CHOOSE i \in same : \A j \in same : i <= j) - 1
    IN  IF index >= 0
        THEN [stored EXCEPT ![index + 1] = canvas_data]
        ELSE <<canvas_data>> \o stored

\* delete_canvas: the list it saves.
delete_canvas(stored, canvas_id) ==
    SelectSeq(stored, LAMBDA c : Get(c, "id") # canvas_id)

SaveCanvas(canvas_data) ==
    /\ canvases' = save_canvas(canvases, canvas_data)
    /\ history_call' = [op |-> "save_canvas", arg |-> canvas_data, loaded |-> canvases]
    /\ UNCHANGED <<pc, inbound, pending, out, origin, tool_call_args, text_buffer, other>>

\* The id is a path segment: always a string.
DeleteCanvas(canvas_id) ==
    /\ canvases' = delete_canvas(canvases, canvas_id)
    /\ history_call' = [op |-> "delete_canvas", arg |-> canvas_id, loaded |-> canvases]
    /\ UNCHANGED <<pc, inbound, pending, out, origin, tool_call_args, text_buffer, other>>

NextHistory ==
    \/ \E canvas_data \in CanvasData : SaveCanvas(canvas_data)
    \/ \E canvas_id \in CanvasIds : DeleteCanvas(canvas_id)

SpecHistory == Init /\ [][NextHistory]_vars

\* The ids of a stored list, position by position.
IdsOf(stored) == [i \in 1..Len(stored) |-> Get(stored[i], "id")]

UniqueIds(stored) ==
    \A i, j \in 1..Len(stored) : IdsOf(stored)[i] = IdsOf(stored)[j] => i = j

Stores(stored, id) == \E i \in 1..Len(stored) : IdsOf(stored)[i] = id

\* C30: canvas ids stay unique under save_canvas and delete_canvas.  A save
\* with a stored id replaces that canvas where it is and changes no other,
\* a save with a new id puts the canvas at the front of the unchanged list,
\* a delete removes exactly the canvas with the id and keeps the others in
\* order, and does nothing when the id is absent.
C30_CanvasIdsUnique ==
    /\ UniqueIds(canvases)
    /\ history_call.op = "save_canvas" =>
         LET before == history_call.loaded
             data == history_call.arg
         IN  IF Stores(before, Get(data, "id"))
             THEN /\ Len(canvases) = Len(before)
                  /\ \A i \in 1..Len(before) :
                        canvases[i] = IF IdsOf(before)[i] = Get(data, "id")
                                      THEN data ELSE before[i]
             ELSE /\ Len(canvases) = Len(before) + 1
                  /\ canvases[1] = data
                  /\ \A i \in 1..Len(before) : canvases[i + 1] = before[i]
    /\ history_call.op = "delete_canvas" =>
         LET before == history_call.loaded
             id == history_call.arg
         IN  /\ ~Stores(canvases, id)
             /\ Len(canvases) = Len(before) - (IF Stores(before, id) THEN 1 ELSE 0)
             /\ \A i \in 1..Len(canvases) :
                    canvases[i] = before[IF \E j \in 1..i : IdsOf(before)[j] = id
                                         THEN i + 1 ELSE i]
             /\ ~Stores(before, id) => canvases = before

\* A save has replaced the second of three canvases, the last of which has
\* no id key, by a body of another name.
C30_Witness ==
    /\ history_call.op = "save_canvas"
    /\ history_call.loaded = <<[id |-> "c", name |-> "n1"],
                              [id |-> "b", name |-> "n1"],
                              [name |-> "n1"]>>
    /\ history_call.arg = [id |-> "b", name |-> "n2"]
    /\ canvases = <<[id |-> "c", name |-> "n1"],
                    [id |-> "b", name |-> "n2"],
                    [name |-> "n1"]>>

====
